---- MODULE Spec2Model ----
(***************************************************************************)
(* MarketPulse: the enhanced news aggregation handler                      *)
(* (src/netlify/functions/get-stock-data.js, lines 29-359) and the ad      *)
(* optimizer handler (src/unnamed/part_000).                               *)
(*                                                                         *)
(* Three specifications share the module:                                  *)
(*   Spec          the news handler as shipped, one invocation;            *)
(*   SpecPipeline  the news handler's continuation from line 43 (the       *)
(*                 join, merge, score, rank and respond steps) on the four *)
(*                 promises of newsPromises;                               *)
(*   SpecAd        the ad optimizer handler, concurrent invocations.       *)
(* Numbers: urgency is kept in units of 1/240, money in tenths, scores in  *)
(* units of 1/100000, all exact.                                           *)
(***************************************************************************)
EXTENDS Integers, Sequences, FiniteSets, TLC

VARIABLES
    pc,          \* position of the news handler
    pageSize,    \* the request's pageSize query parameter (line 32)
    env,         \* env[i]: the credential adapter i reads is set
    upstream,    \* upstream[i]: what adapter i's HTTP call meets
    fourth,      \* settlement of newsPromises[3] (SpecPipeline only)
    promise,     \* newsPromises[i-1]: status and value of each promise
    settleOrder, \* the order in which the promises settled
    allArticles, \* the handler's local allArticles (lines 46-58)
    response     \* what the handler returned

newsVars == <<pc, pageSize, env, upstream, fourth, promise, settleOrder,
              allArticles, response>>

VARIABLES
    revenueMetrics, \* the ad optimizer's module-level revenueMetrics (lines 55-60)
    req             \* req[r]: the state of ad request r's handler

adVars == <<revenueMetrics, req>>

VARIABLES
    arg,    \* the argument of a function applied on its own
    result  \* <<v>> once the function has returned v, <<>> before

fnVars == <<arg, result>>

VARIABLES
    manager,      \* the page's AdvancedAdManager: how far init() has come
    adContainers, \* this.adContainers, by container id (part_001 lines 3, 24-30)
    loads         \* the loadAd calls made so far, each with its position

widgetVars == <<manager, adContainers, loads>>

vars == <<newsVars, adVars, fnVars, widgetVars>>

----------------------------------------------------------------------------
(* Bounds *)

\* total number of items the upstreams deliver in one invocation
MaxTotal == 2

\* number of ad requests, which may overlap
NumRequests == 2

\* number of generateAd calls, over all requests, that do not end in success
MaxFaults == 2

\* number of generateAd calls, over all requests, that end in success while
\* the networks are degraded (SpecAdDegraded)
MaxSuccesses == 1

\* number of requests counted in a performance record given to the ranking
MaxRecorded == 3

\* number of articles in a page given to the scoring map and the sort
MaxListed == 2

\* number of words in a title given to the scorers
MaxWords == 3

----------------------------------------------------------------------------
(* Values *)

None == "none"
Undefined == "undefined"
\* a JavaScript number: a value, or NaN
Num(n) == [nan |-> FALSE, v |-> n]
NaN == [nan |-> TRUE, v |-> 0]

\* the three adapters that exist, in the order of newsPromises (lines 36-41)
Adapters == 1..3
\* all entries of newsPromises, the fourth being fetchFallbackFinancialNews()
Promises == 1..4

\* the instant of the request, in hours
Now == 100

\* a title without its text: it concatenates as the one word `undefined`
\* (lines 190, 211, 225, 284), which no title of the model consists of
NoTitle == <<Undefined>>

\* what an upstream can send as one article: a url (possibly empty), a title
\* (possibly absent) and no description; a text is the sequence of its words
UpstreamItems ==
    { [url |-> "u1", title |-> <<"plain">>, description |-> <<>>, published |-> Num(Now - 2)],
      [url |-> "u2", title |-> <<"plain">>, description |-> <<>>, published |-> Num(Now - 2)],
      [url |-> "",   title |-> <<"plain">>, description |-> <<>>, published |-> Num(Now - 2)],
      [url |-> "u1", title |-> NoTitle,     description |-> <<>>, published |-> Num(Now - 2)] }

Lists(n) == UNION { [1..k -> UpstreamItems] : k \in 0..n }

\* how an HTTP call can end
FailureKinds == {"networkError", "non2xx", "timeout", "malformed"}

Replies(n, failures) ==
    { [kind |-> f, items |-> <<>>] : f \in failures }
      \cup { [kind |-> "ok", items |-> l] : l \in Lists(n) }

NoReply == [kind |-> "unused", items |-> <<>>]

Pending == [status |-> "pending", value |-> <<>>]
NotCalled == [status |-> "notCalled", value |-> <<>>]
Fulfilled(v) == [status |-> "fulfilled", value |-> v]
Rejected == [status |-> "rejected", value |-> <<>>]


Min(a, b) == IF a < b THEN a ELSE b
Max(a, b) == IF a > b THEN a ELSE b

----------------------------------------------------------------------------
(* Source adapters (lines 98-176).  Each is an async function whose whole  *)
(* body after the credential test sits in try/catch: it never rejects.     *)

SourceName(i) ==
    CASE i = 1 -> "newsapi" [] i = 2 -> "alphavantage" [] i = 3 -> "finnhub"
      [] OTHER -> "fourth"

Stamp(items, i) ==
    [k \in 1..Len(items) |->
        [url |-> items[k].url, title |-> items[k].title,
         description |-> items[k].description,
         published |-> items[k].published, src |-> SourceName(i)]]

\* lines 98-118: `response.data.articles || []`, [] from the catch
fetchNewsAPI(reply) ==
    IF reply.kind = "ok" THEN Stamp(reply.items, 1) ELSE <<>>

\* lines 120-150: the feed mapped to items, [] without a feed or from the catch
fetchAlphaVantageNews(reply) ==
    IF reply.kind = "ok" THEN Stamp(reply.items, 2) ELSE <<>>

\* lines 152-176: data.slice(0, 10) mapped to items, [] from the catch
fetchFinnhubMarketNews(reply) ==
    IF reply.kind = "ok" THEN Stamp(SubSeq(reply.items, 1, Min(10, Len(reply.items))), 3)
    ELSE <<>>

AdapterValue(i, reply) ==
    CASE i = 1 -> fetchNewsAPI(reply)
      [] i = 2 -> fetchAlphaVantageNews(reply)
      [] OTHER -> fetchFinnhubMarketNews(reply)

\* lines 99, 121, 153: without its credential the adapter returns [] before
\* any await, so its promise is fulfilled as soon as it is created
AdapterCall(i, keySet) == IF keySet THEN Pending ELSE Fulfilled(<<>>)

\* the names the module binds; line 40 calls one that is not among them
ModuleFunctions ==
    {"fetchNewsAPI", "fetchAlphaVantageNews", "fetchFinnhubMarketNews",
     "analyzeMarketImpact", "analyzeAdvancedSentiment", "extractRelatedAssets",
     "calculateUrgencyScore", "generateTradingImplications",
     "generateMarketSummary", "getFallbackNews"}

----------------------------------------------------------------------------------------------------------------------------------------
(* Scorers (lines 178-303).  A text is the sequence of its words; a word   *)
(* is written as it stands in the text, a keyword of several words being   *)
(* one word of the sequence.                                               *)

\* String.prototype.toLowerCase on the words the model writes with capitals
Lower(w) ==
    CASE w = "Market" -> "market"
      [] w = "Economic" -> "economic"
      [] w = "Analysis" -> "analysis"
      [] w = "Earnings" -> "earnings"
      [] OTHER -> w

\* String.prototype.toUpperCase on the words that name an asset
Upper(w) ==
    CASE w = "amd" -> "AMD"
      [] w = "btc" -> "BTC"
      [] w = "usd" -> "USD"
      [] OTHER -> w

\* the keywords that occur inside another word of the model
Within == {<<"fed", "federal reserve">>}

\* `word.includes(keyword)`
Contains(word, keyword) == word = keyword \/ <<keyword, word>> \in Within

\* `content.includes(keyword)`
Includes(content, keyword) ==
    \E k \in 1..Len(content) : Contains(content[k], keyword)

\* `article.title + ' ' + (article.description || '')`
Content(a) == a.title \o a.description

LowerContent(a) == [k \in 1..Len(Content(a)) |-> Lower(Content(a)[k])]

UpperContent(a) == [k \in 1..Len(Content(a)) |-> Upper(Content(a)[k])]

\* `keywords.filter(keyword => content.includes(keyword)).length`
Matches(keywords, content) ==
    Cardinality({w \in keywords : Includes(content, w)})

HighImpactKeywords ==
    {"fed", "interest rates", "inflation", "earnings", "merger", "acquisition",
     "federal reserve", "ecb", "central bank", "gdp", "unemployment", "rate hike",
     "quarterly results", "profit", "revenue", "dividend"}

MediumImpactKeywords ==
    {"economic", "growth", "market", "trading", "investment", "forecast",
     "outlook", "analysis", "price target", "upgrade", "downgrade"}

\* the counts taken over the occurrences of keywords in the content instead
\* of over the keywords
analyzeMarketImpact_Occurrences(a) ==
    LET Count(keywords) ==
            Cardinality({k \in 1..Len(LowerContent(a)) :
                           \E w \in keywords : Contains(LowerContent(a)[k], w)})
        highImpactCount == Count(HighImpactKeywords)
        mediumImpactCount == Count(MediumImpactKeywords)
    IN  IF highImpactCount >= 2 THEN "high"
        ELSE IF highImpactCount >= 1 \/ mediumImpactCount >= 2 THEN "medium"
        ELSE "low"

\* lines 178-198
analyzeMarketImpact(a) ==
    LET highImpactCount == Matches(HighImpactKeywords, LowerContent(a))
        mediumImpactCount == Matches(MediumImpactKeywords, LowerContent(a))
    IN  IF highImpactCount >= 2 THEN "high"
        ELSE IF highImpactCount >= 1 \/ mediumImpactCount >= 2 THEN "medium"
        ELSE "low"

PositiveWords ==
    {"gain", "rise", "profit", "growth", "bullish", "surge", "rally", "increase",
     "positive", "strong", "beat", "upgrade", "buy", "outperform", "success"}

NegativeWords ==
    {"fall", "drop", "loss", "decline", "bearish", "slump", "plunge", "decrease",
     "negative", "weak", "miss", "downgrade", "sell", "underperform", "failure"}

\* the counts taken over the occurrences of words in the content instead of
\* over the words of the lists
analyzeAdvancedSentiment_Occurrences(a) ==
    LET Count(keywords) ==
            Cardinality({k \in 1..Len(LowerContent(a)) :
                           \E w \in keywords : Contains(LowerContent(a)[k], w)})
        score == Count(PositiveWords) - Count(NegativeWords)
    IN  IF score >= 2 THEN "positive"
        ELSE IF score <= -2 THEN "negative"
        ELSE "neutral"

\* lines 200-221
analyzeAdvancedSentiment(a) ==
    LET positiveCount == Matches(PositiveWords, LowerContent(a))
        negativeCount == Matches(NegativeWords, LowerContent(a))
        score == positiveCount - negativeCount
    IN  IF score >= 2 THEN "positive"
        ELSE IF score <= -2 THEN "negative"
        ELSE "neutral"

\* lines 231, 239-244, 253
popularStocks == {"AAPL", "MSFT", "GOOGL", "AMZN", "TSLA", "META", "NFLX", "NVDA", "AMD", "IBM"}

cryptos ==
    << [symbol |-> "BTC", names |-> {"BITCOIN", "BTC"}],
       [symbol |-> "ETH", names |-> {"ETHEREUM", "ETH"}],
       [symbol |-> "ADA", names |-> {"CARDANO", "ADA"}],
       [symbol |-> "SOL", names |-> {"SOLANA", "SOL"}] >>

forexPairs == <<"USD", "EUR", "GBP", "JPY", "CAD", "AUD">>

\* lines 228-236: one entry per mention of a popular stock, in text order
RECURSIVE StockMentions(_, _)
StockMentions(content, k) ==
    IF k > Len(content) THEN <<>>
    ELSE (IF content[k] \in popularStocks
          THEN <<[symbol |-> content[k], type |-> "stock"]>> ELSE <<>>)
           \o StockMentions(content, k + 1)

\* lines 246-250
RECURSIVE CryptoMentions(_, _)
CryptoMentions(content, k) ==
    IF k > Len(cryptos) THEN <<>>
    ELSE (IF \E name \in cryptos[k].names : Includes(content, name)
          THEN <<[symbol |-> cryptos[k].symbol, type |-> "crypto"]>> ELSE <<>>)
           \o CryptoMentions(content, k + 1)

\* lines 254-258
RECURSIVE ForexMentions(_, _)
ForexMentions(content, k) ==
    IF k > Len(forexPairs) THEN <<>>
    ELSE (IF Includes(content, forexPairs[k])
          THEN <<[symbol |-> forexPairs[k], type |-> "forex"]>> ELSE <<>>)
           \o ForexMentions(content, k + 1)

\* lines 223-261: at most 5 kept
extractRelatedAssets(a) ==
    LET assets == StockMentions(UpperContent(a), 1)
                    \o CryptoMentions(UpperContent(a), 1)
                    \o ForexMentions(UpperContent(a), 1)
    IN  SubSeq(assets, 1, Min(5, Len(assets)))

BreakingKeywords == {"breaking", "urgent", "immediate", "alert", "just in"}

\* line 274: `article.title.toLowerCase()` raises a TypeError on an absent title
UrgencyThrows(a) == a.title = NoTitle

\* lines 263-280, in units of 1/240; an unparseable date makes every step NaN
calculateUrgencyScore(a, now) ==
    IF a.published.nan THEN NaN
    ELSE LET hoursDiff == now - a.published.v
             recency == Max(0, 24 - hoursDiff) * 10
             hasBreaking == \E w \in BreakingKeywords :
                               Includes([k \in 1..Len(a.title) |-> Lower(a.title[k])], w)
             boost == IF hasBreaking THEN 72 ELSE 0
         IN  Num(Min(240, recency + boost))

\* lines 282-303: the content is matched as it stands, without lower-casing
generateTradingImplications(a) ==
    LET Has(w) == Includes(Content(a), w)
        rates == IF Has("interest rate") \/ Has("federal reserve")
                 THEN <<"Monitor bond yields and currency pairs">> ELSE <<>>
        earn  == IF Has("earnings") \/ Has("quarterly results")
                 THEN <<"Check specific stock volatility and options activity">> ELSE <<>>
        infl  == IF Has("inflation") \/ Has("CPI")
                 THEN <<"Watch gold, commodities, and inflation-protected securities">> ELSE <<>>
        cryp  == IF Has("crypto") \/ Has("bitcoin")
                 THEN <<"Monitor cryptocurrency market sentiment and regulatory news">> ELSE <<>>
        implications == rates \o earn \o infl \o cryp
    IN  IF Len(implications) > 0 THEN implications
        ELSE <<"General market sentiment analysis recommended">>

CountWhere(seq, field, value) ==
    Cardinality({k \in 1..Len(seq) : seq[k][field] = value})

\* lines 305-317
generateMarketSummary(articles) ==
    LET highImpactCount == CountWhere(articles, "marketImpact", "high")
        positiveSentiment == CountWhere(articles, "sentiment", "positive")
        negativeSentiment == CountWhere(articles, "sentiment", "negative")
    IN  [overallSentiment |->
            IF positiveSentiment > negativeSentiment THEN "positive"
            ELSE IF negativeSentiment > positiveSentiment THEN "negative"
            ELSE "neutral",
         marketImpactLevel |->
            IF highImpactCount > 3 THEN "high"
            ELSE IF highImpactCount > 1 THEN "medium" ELSE "low",
         newsVolume |-> Len(articles)]


----------------------------------------------------------------------------
(* The fallback provider (lines 319-359) *)

\* lines 320-345; of each text the words that hold a keyword of a scorer are
\* kept, as they stand: "Market Pulse: Key Economic Indicators ...",
\* "... inflation data and central bank announcements for market direction
\* ...", "Technical Analysis: ..."; urgency 0.5 and 0.3 in units of 1/240
fallbackArticles ==
    << [url |-> "#", title |-> <<"Market", "Economic">>,
        description |-> <<"inflation", "central bank", "market">>,
        published |-> Num(Now), src |-> "Market Intelligence",
        marketImpact |-> "medium", sentiment |-> "neutral", relatedAssets |-> <<>>,
        urgency |-> Num(120),
        tradingImplications |-> <<"Monitor economic calendar for data releases">>],
       [url |-> "#", title |-> <<"Analysis">>,
        description |-> <<>>,
        published |-> Num(Now), src |-> "Technical Analysis",
        marketImpact |-> "low", sentiment |-> "neutral", relatedAssets |-> <<>>,
        urgency |-> Num(72),
        tradingImplications |-> <<"Review technical charts for entry/exit points">>] >>

\* the fallback body without its error indicator
getFallbackNews_NoError ==
    [statusCode |-> 200,
     body |-> [articles |-> fallbackArticles,
               totalResults |-> Len(fallbackArticles),
               sourcesUsed |-> <<FALSE, FALSE, FALSE, TRUE>>,
               analyzedAt |-> Now,
               marketSummary |-> generateMarketSummary(fallbackArticles)]]

getFallbackNews ==
    [statusCode |-> 200,
     body |-> [articles |-> fallbackArticles,
               totalResults |-> Len(fallbackArticles),
               sourcesUsed |-> <<FALSE, FALSE, FALSE, TRUE>>,
               analyzedAt |-> Now,
               marketSummary |-> generateMarketSummary(fallbackArticles),
               error |-> "Using fallback news data"]]

\* what the platform answers when the handler's promise rejects
HandlerCatch_Propagates ==
    [statusCode |-> 502, body |-> [errorMessage |-> "unhandled"]]

\* lines 92-95: the catch of the handler's try
HandlerCatch == getFallbackNews

----------------------------------------------------------------------------
(* Merge, score and rank (lines 45-75) *)

\* lines 51-56: one article against the set of urls seen so far
AddArticle(acc, article) ==
    IF article.url # "" /\ article.url \notin acc.seenUrls
    THEN [all |-> Append(acc.all, article),
          seenUrls |-> acc.seenUrls \cup {article.url}]
    ELSE acc

RECURSIVE MergeValue(_, _, _)
MergeValue(acc, value, k) ==
    IF k > Len(value) THEN acc
    ELSE MergeValue(AddArticle(acc, value[k]), value, k + 1)

\* lines 49-58: results.forEach in index order, fulfilled results only
RECURSIVE MergeResults(_, _, _)
MergeResults(acc, results, i) ==
    IF i > Len(results) THEN acc
    ELSE MergeResults(
            IF results[i].status = "fulfilled"
            THEN MergeValue(acc, results[i].value, 1) ELSE acc,
            results, i + 1)

Merge(results) == MergeResults([all |-> <<>>, seenUrls |-> {}], results, 1).all

\* line 62: allArticles.slice(0, pageSize)
Slice(all, n) == SubSeq(all, 1, Min(n, Len(all)))

\* the scoring with marketImpact raised to high while the article is fresh
Scored_FreshIsHigh(a, now) ==
    [url |-> a.url, title |-> a.title, description |-> a.description,
     published |-> a.published, src |-> a.src,
     marketImpact |-> IF ~calculateUrgencyScore(a, now).nan
                         /\ calculateUrgencyScore(a, now).v >= 200
                      THEN "high" ELSE analyzeMarketImpact(a),
     sentiment |-> analyzeAdvancedSentiment(a),
     relatedAssets |-> extractRelatedAssets(a),
     urgency |-> calculateUrgencyScore(a, now),
     tradingImplications |-> generateTradingImplications(a)]

\* lines 63-70
Scored(a, now) ==
    [url |-> a.url, title |-> a.title, description |-> a.description,
     published |-> a.published, src |-> a.src,
     marketImpact |-> analyzeMarketImpact(a),
     sentiment |-> analyzeAdvancedSentiment(a),
     relatedAssets |-> extractRelatedAssets(a),
     urgency |-> calculateUrgencyScore(a, now),
     tradingImplications |-> generateTradingImplications(a)]

ScoreAll(page, now) == [k \in 1..Len(page) |-> Scored(page[k], now)]

\* line 73
impactScore(m) == CASE m = "high" -> 3 [] m = "medium" -> 2 [] OTHER -> 1

\* line 74: the sort key, in units of 1/240; NaN when the urgency is NaN
SortKey(a) ==
    IF a.urgency.nan THEN NaN ELSE Num(impactScore(a.marketImpact) * 240 + a.urgency.v)

\* the comparator of line 74 says "a before b"
Before(a, b) == SortKey(a).v > SortKey(b).v

RECURSIVE InsertSorted(_, _)
InsertSorted(sorted, a) ==
    IF sorted = <<>> THEN <<a>>
    ELSE IF Before(a, Head(sorted)) THEN <<a>> \o sorted
    ELSE <<Head(sorted)>> \o InsertSorted(Tail(sorted), a)

RECURSIVE SortFrom(_, _, _)
SortFrom(sorted, seq, k) ==
    IF k > Len(seq) THEN sorted
    ELSE SortFrom(InsertSorted(sorted, seq[k]), seq, k + 1)

StableSort(seq) == SortFrom(<<>>, seq, 1)

Orderings(seq) ==
    { [k \in 1..Len(seq) |-> seq[f[k]]] :
        f \in { g \in [1..Len(seq) -> 1..Len(seq)] :
                  \A x, y \in 1..Len(seq) : x # y => g[x] # g[y] } }

\* lines 71-75: Array.prototype.sort is stable when the comparator is
\* consistent; a NaN key makes it inconsistent and the order
\* implementation-defined
SortOutcomes(seq) ==
    IF \E k \in 1..Len(seq) : SortKey(seq[k]).nan
    THEN Orderings(seq)
    ELSE {StableSort(seq)}

\* line 87
SourcesUsed(results) == [i \in 1..Len(results) |-> results[i].status = "fulfilled"]

\* lines 77-91
LiveResponse(analyzedArticles, results) ==
    [statusCode |-> 200,
     body |-> [articles |-> analyzedArticles,
               totalResults |-> Len(analyzedArticles),
               sourcesUsed |-> SourcesUsed(results),
               analyzedAt |-> Now,
               marketSummary |-> generateMarketSummary(analyzedArticles)]]

\* the scoring map raises when calculateUrgencyScore does (line 68)
ScoringThrows(page) == \E k \in 1..Len(page) : UrgencyThrows(page[k])


----------------------------------------------------------------------------
(* The ad optimizer: configuration and performance store                   *)
(* (src/unnamed/part_000, lines 4-60 and 124-143, 383-433)                 *)

\* the keys of AD_NETWORKS in the order Object.entries yields them
Networks == <<"adsense", "propellerads", "adsterra", "medianet">>

NetworkKeys == {Networks[k] : k \in 1..Len(Networks)}

\* lines 5-51: enabled, loadTime in ms, fillRate in hundredths
AD_NETWORKS ==
    [adsense      |-> [enabled |-> TRUE, loadTime |-> 120, fillRate |-> 85],
     propellerads |-> [enabled |-> TRUE, loadTime |-> 180, fillRate |-> 75],
     adsterra     |-> [enabled |-> TRUE, loadTime |-> 200, fillRate |-> 80],
     medianet     |-> [enabled |-> TRUE, loadTime |-> 150, fillRate |-> 78]]

\* the `type` query parameter (line 63), which defaults to 'banner'; the type
\* only selects the ad unit and its estimatedRevenue
AdTypes == {"banner"}

\* estimatedRevenue of each adapter's ad, in tenths (lines 163-381)
EstimatedRevenue(network, type) ==
    CASE network = "adsense" -> 8
      [] network = "propellerads" -> (IF type = "popunder" THEN 9 ELSE 6)
      [] network = "adsterra" -> (IF type = "popunder" THEN 8 ELSE 5)
      [] OTHER -> 7

\* a ratio of two counters, kept exact
Ratio(n, d) == [num |-> n, den |-> d]

\* lines 55-60; networkPerformance is kept as the sequence of its entries in
\* insertion order, which is the order Object.keys yields
InitialMetrics ==
    [totalRevenue |-> 0, networkPerformance |-> <<>>, hourlyRevenue |-> {},
     bestPerforming |-> "adsense"]

HasRecord(metrics, key) ==
    \E k \in 1..Len(metrics.networkPerformance) :
        metrics.networkPerformance[k].key = key

IndexOf(metrics, key) ==
    CHOOSE k \in 1..Len(metrics.networkPerformance) :
        metrics.networkPerformance[k].key = key

PerfOf(metrics, key) == metrics.networkPerformance[IndexOf(metrics, key)]

\* lines 128-142: the weighted score of a configuration and a performance,
\* as the exact ratio num/den in units of 1/100000
WeightedScore(config, performance) ==
    LET \* 0.4 * min(totalRevenue / 1000, 1)
        revenueScore == 4 * Min(performance.totalRevenue, 10000)
        \* successRate || 0.8
        successScore == IF performance.successRate.num = 0 THEN Ratio(4, 5)
                        ELSE performance.successRate
        \* 0.2 * (1000 - loadTime) / 1000
        speedScore == 20 * (1000 - config.loadTime)
        \* 0.1 * fillRate
        fillScore == 100 * config.fillRate
    IN  Ratio((revenueScore + speedScore + fillScore) * successScore.den
                 + 30000 * successScore.num,
              successScore.den)

\* lines 124-143
calculateNetworkScore(networkKey, metrics) ==
    LET config == AD_NETWORKS[networkKey]
        performance ==
            IF HasRecord(metrics, networkKey)
            THEN [successRate |-> PerfOf(metrics, networkKey).successRate,
                  totalRevenue |-> PerfOf(metrics, networkKey).totalRevenue]
            ELSE [successRate |-> Ratio(4, 5), totalRevenue |-> 0]
    IN  WeightedScore(config, performance)

Greater(x, y) == x.num * y.den > y.num * x.den

\* the comparator with its operands exchanged: `scoreA - scoreB`
SortsBefore_Ascending(a, b, metrics) ==
    Greater(calculateNetworkScore(b, metrics), calculateNetworkScore(a, metrics))

\* line 102: `scoreB - scoreA` puts a before b when a's score is the greater
SortsBefore(a, b, metrics) ==
    Greater(calculateNetworkScore(a, metrics), calculateNetworkScore(b, metrics))

RECURSIVE InsertNetwork(_, _, _)
InsertNetwork(sorted, key, metrics) ==
    IF sorted = <<>> THEN <<key>>
    ELSE IF SortsBefore(key, Head(sorted), metrics) THEN <<key>> \o sorted
    ELSE <<Head(sorted)>> \o InsertNetwork(Tail(sorted), key, metrics)

RECURSIVE SortNetworksFrom(_, _, _)
SortNetworksFrom(sorted, k, metrics) ==
    IF k > Len(Networks) THEN sorted
    ELSE SortNetworksFrom(
            IF AD_NETWORKS[Networks[k]].enabled
            THEN InsertNetwork(sorted, Networks[k], metrics) ELSE sorted,
            k + 1, metrics)

\* lines 92-103: the enabled networks, stably sorted by descending score
enabledNetworks(metrics) == SortNetworksFrom(<<>>, 1, metrics)

\* lines 427-432: reduce over the keys, keeping a only when strictly greater
RECURSIVE ReduceBest(_, _, _)
ReduceBest(perf, a, k) ==
    IF k > Len(perf) THEN a
    ELSE ReduceBest(perf,
                    IF perf[(CHOOSE j \in 1..Len(perf) : perf[j].key = a)].totalRevenue > perf[k].totalRevenue
                    THEN a ELSE perf[k].key,
                    k + 1)

\* the update with successRate computed before `perf.successes++`
updatePerformanceMetrics_StaleRate(metrics, networkKey, success, revenue) ==
    LET created ==
            IF HasRecord(metrics, networkKey) THEN metrics.networkPerformance
            ELSE Append(metrics.networkPerformance,
                        [key |-> networkKey, successRate |-> Ratio(4, 5),
                         totalRevenue |-> 0, requests |-> 0, successes |-> 0])
        at == CHOOSE k \in 1..Len(created) : created[k].key = networkKey
        old == created[at]
        requests == old.requests + 1
        successes == IF success THEN old.successes + 1 ELSE old.successes
        perf == [key |-> networkKey,
                 successRate |-> Ratio(old.successes, requests),
                 totalRevenue |-> IF success THEN old.totalRevenue + revenue
                                  ELSE old.totalRevenue,
                 requests |-> requests,
                 successes |-> successes]
        updated == [created EXCEPT ![at] = perf]
    IN  [metrics EXCEPT
            !.networkPerformance = updated,
            !.totalRevenue = IF success THEN @ + revenue ELSE @,
            !.bestPerforming = ReduceBest(updated, updated[1].key, 2)]

\* lines 405-433: no await in the body, so it runs in one turn
updatePerformanceMetrics(metrics, networkKey, success, revenue) ==
    LET created ==
            IF HasRecord(metrics, networkKey) THEN metrics.networkPerformance
            ELSE Append(metrics.networkPerformance,
                        [key |-> networkKey, successRate |-> Ratio(4, 5),
                         totalRevenue |-> 0, requests |-> 0, successes |-> 0])
        at == CHOOSE k \in 1..Len(created) : created[k].key = networkKey
        old == created[at]
        requests == old.requests + 1
        successes == IF success THEN old.successes + 1 ELSE old.successes
        perf == [key |-> networkKey,
                 successRate |-> Ratio(successes, requests),
                 totalRevenue |-> IF success THEN old.totalRevenue + revenue
                                  ELSE old.totalRevenue,
                 requests |-> requests,
                 successes |-> successes]
        updated == [created EXCEPT ![at] = perf]
    IN  [metrics EXCEPT
            !.networkPerformance = updated,
            !.totalRevenue = IF success THEN @ + revenue ELSE @,
            !.bestPerforming = ReduceBest(updated, updated[1].key, 2)]

\* lines 383-403
getFallbackAd ==
    [success |-> TRUE, network |-> "fallback", html |-> "fallback-ad", revenueScore |-> 30,
     loadTime |-> 100, estimatedRevenue |-> 0]

\* lines 163-381: what an adapter resolves with
AdapterAd(network, type) ==
    [success |-> TRUE, network |-> network, html |-> network,
     revenueScore |-> CASE network = "adsense" -> 90
                        [] network = "propellerads" -> 70
                        [] network = "adsterra" -> 65
                        [] OTHER -> 75,
     loadTime |-> AD_NETWORKS[network].loadTime,
     estimatedRevenue |-> EstimatedRevenue(network, type)]

\* lines 445-451
getCurrentRevenueStats(metrics) ==
    [totalRevenue |-> metrics.totalRevenue,
     bestPerforming |-> metrics.bestPerforming,
     networkPerformance |-> metrics.networkPerformance]

Requests == 1..NumRequests

\* the handler's `optimizedAd` before getRevenueOptimizedAd has returned
NoAd ==
    [success |-> FALSE, network |-> "none", html |-> "", revenueScore |-> 0,
     loadTime |-> 0, estimatedRevenue |-> 0]

IdleRequest ==
    [pc |-> "idle", type |-> "banner", order |-> <<>>, scores |-> <<>>,
     idx |-> 0, attempts |-> <<>>, resume |-> "none", ad |-> NoAd,
     response |-> None]

AdQuiet == revenueMetrics = InitialMetrics /\ req = [r \in Requests |-> IdleRequest]

\* no function is being applied on its own
FnQuiet == arg = None /\ result = <<>>

\* containers of the page, by id, in document order (part_001 line 17)
Page == <<"c1", "c2">>

ContainerIds == {Page[k] : k \in 1..Len(Page)}

\* an entry of this.adContainers as lines 24-30 set it, or the absent entry
\* of a container that initializeContainers has not reached yet
Container(registered) ==
    [registered |-> registered, element |-> "", type |-> "banner",
     currentNetwork |-> "null", performance |-> <<>>]

\* the page before DOMContentLoaded: no AdvancedAdManager yet
WidgetQuiet ==
    /\ manager = [init |-> "notConstructed", rotating |-> FALSE,
                  rotations |-> 0, scripts |-> {}]
    /\ adContainers = [c \in ContainerIds |-> Container(FALSE)]
    /\ loads = <<>>

----------------------------------------------------------------------------
(* The news handler (lines 31-96) *)

\* line 32: pageSize defaults to '15'
PageSizes == {15, 1}

WorldOptions(n, failures) ==
    {[key |-> FALSE, reply |-> NoReply]}
      \cup {[key |-> TRUE, reply |-> r] : r \in Replies(n, failures)}

Size(o) == Len(o.reply.items)

\* the credentials that are set and what each upstream will answer
World(failures) ==
    \E w1 \in WorldOptions(MaxTotal, failures) :
      \E w2 \in WorldOptions(MaxTotal - Size(w1), failures) :
        \E w3 \in WorldOptions(MaxTotal - Size(w1) - Size(w2), failures) :
           /\ env = <<w1.key, w2.key, w3.key>>
           /\ upstream = <<w1.reply, w2.reply, w3.reply>>

Delivered == Len(upstream[1].items) + Len(upstream[2].items) + Len(upstream[3].items)

Init ==
    /\ World(FailureKinds)
    /\ pc = "idle"
    /\ pageSize = 15
    /\ fourth = NotCalled
    /\ promise = [i \in Promises |-> NotCalled]
    /\ settleOrder = <<>>
    /\ allArticles = <<>>
    /\ response = None
    /\ AdQuiet
    /\ FnQuiet
    /\ WidgetQuiet

\* line 32
Invoke(ps) ==
    /\ pc = "idle"
    /\ pageSize' = ps
    /\ pc' = "l37"
    /\ UNCHANGED <<env, upstream, fourth, promise, settleOrder, allArticles, response>>
    /\ UNCHANGED <<adVars, fnVars, widgetVars>>

CallSite(i) == CASE i = 1 -> "l37" [] i = 2 -> "l38" [] OTHER -> "l39"
NextSite(i) == CASE i = 1 -> "l38" [] i = 2 -> "l39" [] OTHER -> "l40"

\* lines 37-39: the array literal calls the adapters one after the other; each
\* call runs the adapter to its first await and yields its promise
CallAdapter(i) ==
    /\ pc = CallSite(i)
    /\ promise' = [promise EXCEPT ![i] = AdapterCall(i, env[i])]
    /\ settleOrder' = IF env[i] THEN settleOrder ELSE Append(settleOrder, i)
    /\ pc' = NextSite(i)
    /\ UNCHANGED <<pageSize, env, upstream, fourth, allArticles, response>>
    /\ UNCHANGED <<adVars, fnVars, widgetVars>>

\* line 40: fetchFallbackFinancialNews is bound nowhere in the module, so the
\* call raises a ReferenceError inside the try; the catch (lines 92-95)
\* answers with getFallbackNews()
CallFetchFallbackFinancialNews ==
    /\ pc = "l40"
    /\ IF "fetchFallbackFinancialNews" \in ModuleFunctions
       THEN /\ promise' = [promise EXCEPT ![4] = Pending]
            /\ pc' = "l43"
            /\ UNCHANGED response
       ELSE /\ response' = HandlerCatch
            /\ pc' = "done"
            /\ UNCHANGED promise
    /\ UNCHANGED <<pageSize, env, upstream, fourth, settleOrder, allArticles>>
    /\ UNCHANGED <<adVars, fnVars, widgetVars>>

\* the HTTP call of adapter i ends; the adapter's try/catch turns every
\* ending into a fulfilled promise
AdapterSettle(i) ==
    /\ promise[i].status = "pending"
    /\ promise' = [promise EXCEPT ![i] = Fulfilled(AdapterValue(i, upstream[i]))]
    /\ settleOrder' = Append(settleOrder, i)
    /\ UNCHANGED <<pc, pageSize, env, upstream, fourth, allArticles, response>>
    /\ UNCHANGED <<adVars, fnVars, widgetVars>>

Next ==
    \/ \E ps \in PageSizes : Invoke(ps)
    \/ \E i \in Adapters : CallAdapter(i)
    \/ CallFetchFallbackFinancialNews
    \/ \E i \in Adapters : AdapterSettle(i)

Spec == Init /\ [][Next]_vars

----------------------------------------------------------------------------
(* The handler from line 43 on, given the four promises of newsPromises *)

\* the fourth promise settles
FourthSettle ==
    /\ promise[4].status = "pending"
    /\ promise' = [promise EXCEPT ![4] = fourth]
    /\ settleOrder' = Append(settleOrder, 4)
    /\ UNCHANGED <<pc, pageSize, env, upstream, fourth, allArticles, response>>
    /\ UNCHANGED <<adVars, fnVars, widgetVars>>

\* the outcomes in the order in which the promises settled
AllSettledResults_CompletionOrder(p, order) == [k \in Promises |-> p[order[k]]]

\* line 43: Promise.allSettled keeps each outcome at its promise's index
AllSettledResults(p, order) == [i \in Promises |-> p[i]]

\* lines 43-95: everything after the await runs in one turn
Resume ==
    /\ pc = "l43"
    /\ \A i \in Promises : promise[i].status \in {"fulfilled", "rejected"}
    /\ LET results == AllSettledResults(promise, settleOrder)
           all == Merge(results)
           page == Slice(all, pageSize)
       IN  /\ allArticles' = all
           /\ IF ScoringThrows(page)
              THEN response' = HandlerCatch
              ELSE \E analyzedArticles \in SortOutcomes(ScoreAll(page, Now)) :
                      response' = LiveResponse(analyzedArticles, results)
    /\ pc' = "done"
    /\ UNCHANGED <<pageSize, env, upstream, fourth, promise, settleOrder>>
    /\ UNCHANGED <<adVars, fnVars, widgetVars>>

RECURSIVE SettledAtCall(_)
SettledAtCall(i) ==
    IF i > 3 THEN <<>>
    ELSE (IF env[i] THEN <<>> ELSE <<i>>) \o SettledAtCall(i + 1)

InitPipeline ==
    /\ World({"timeout"})
    /\ pc = "l43"
    /\ pageSize \in PageSizes
    /\ fourth \in {Rejected}
          \cup {Fulfilled(Stamp(l, 4)) : l \in Lists(MaxTotal - Delivered)}
    /\ promise = [i \in Promises |->
                    IF i \in Adapters THEN AdapterCall(i, env[i]) ELSE Pending]
    /\ settleOrder = SettledAtCall(1)
    /\ allArticles = <<>>
    /\ response = None
    /\ AdQuiet
    /\ FnQuiet
    /\ WidgetQuiet

NextPipeline ==
    \/ \E i \in Adapters : AdapterSettle(i)
    \/ FourthSettle
    \/ Resume

SpecPipeline == InitPipeline /\ [][NextPipeline]_vars


----------------------------------------------------------------------------
(* The ad optimizer handler (src/unnamed/part_000, lines 62-122).  Requests *)
(* share revenueMetrics and interleave at their awaits.                     *)

\* how `await generateAd(...)` can end for the loop of lines 108-119: the
\* adapters of lines 163-381 resolve with success: true; the loop also
\* provides for a result that is no success (line 111) and for an exception
\* (line 115)
AdapterOutcomes == {"success", "nonSuccess", "throws"}

RECURSIVE FaultsIn(_, _)
FaultsIn(attempts, k) ==
    IF k > Len(attempts) THEN 0
    ELSE (IF attempts[k].outcome = "success" THEN 0 ELSE 1) + FaultsIn(attempts, k + 1)

RECURSIVE FaultsUpTo(_)
FaultsUpTo(r) == IF r = 0 THEN 0 ELSE FaultsIn(req[r].attempts, 1) + FaultsUpTo(r - 1)

Faults == FaultsUpTo(NumRequests)

\* the outcomes drawn for generateAd are kept within the fault budget
WithinFaults(outcome) == outcome # "success" => Faults < MaxFaults

NewsQuiet ==
    /\ pc = "idle"
    /\ pageSize = 15
    /\ env = <<FALSE, FALSE, FALSE>>
    /\ upstream = <<NoReply, NoReply, NoReply>>
    /\ fourth = NotCalled
    /\ promise = [i \in Promises |-> NotCalled]
    /\ settleOrder = <<>>
    /\ allArticles = <<>>
    /\ response = None

\* the loop falling through to the ad of the network tried last
NextAttempt_LastNetwork(q) ==
    IF q.idx < Len(q.order)
    THEN [q EXCEPT !.idx = q.idx + 1, !.pc = "awaitGenerate"]
    ELSE [q EXCEPT !.pc = "awaitSelect",
                   !.ad = AdapterAd(q.order[Len(q.order)], q.type)]

\* lines 108-121: the next iteration of the loop calls generateAd for the
\* next network; after the last one the function returns getFallbackAd()
NextAttempt(q) ==
    IF q.idx < Len(q.order)
    THEN [q EXCEPT !.idx = q.idx + 1, !.pc = "awaitGenerate"]
    ELSE [q EXCEPT !.pc = "awaitSelect", !.ad = getFallbackAd]

\* lines 63-67 and 92-110: the handler calls getRevenueOptimizedAd, which
\* sorts the enabled networks and calls generateAd for the first
AdInvoke(r, type) ==
    /\ req[r].pc = "idle"
    /\ req' = [req EXCEPT ![r] =
                 NextAttempt([@ EXCEPT
                    !.type = type,
                    !.order = enabledNetworks(revenueMetrics),
                    !.scores = [n \in NetworkKeys |->
                                  calculateNetworkScore(n, revenueMetrics)]])]
    /\ UNCHANGED <<revenueMetrics, newsVars, fnVars, widgetVars>>

\* lines 110-118: generateAd settles and the loop body continues to its
\* next await
GenerateAdSettles(r, outcome) ==
    /\ req[r].pc = "awaitGenerate"
    /\ LET q == req[r]
           networkKey == q.order[q.idx]
           ad == AdapterAd(networkKey, q.type)
           tried == [q EXCEPT !.attempts =
                        Append(@, [network |-> networkKey, outcome |-> outcome])]
       IN  CASE outcome = "success" ->
                  /\ revenueMetrics' = updatePerformanceMetrics(
                                          revenueMetrics, networkKey, TRUE,
                                          ad.estimatedRevenue)
                  /\ req' = [req EXCEPT ![r] =
                               [tried EXCEPT !.pc = "awaitUpdate", !.ad = ad,
                                             !.resume = "return"]]
             [] outcome = "throws" ->
                  /\ revenueMetrics' = updatePerformanceMetrics(
                                          revenueMetrics, networkKey, FALSE, 0)
                  /\ req' = [req EXCEPT ![r] =
                               [tried EXCEPT !.pc = "awaitUpdate",
                                             !.resume = "continue"]]
             [] OTHER ->
                  /\ req' = [req EXCEPT ![r] = NextAttempt(tried)]
                  /\ UNCHANGED revenueMetrics
    /\ UNCHANGED <<newsVars, fnVars, widgetVars>>

\* lines 112-113 and 117: after `await updatePerformanceMetrics(...)` the
\* function returns the ad, or the loop goes on
UpdateResumes(r) ==
    /\ req[r].pc = "awaitUpdate"
    /\ req' = [req EXCEPT ![r] =
                 IF @.resume = "return" THEN [@ EXCEPT !.pc = "awaitSelect"]
                 ELSE NextAttempt(@)]
    /\ UNCHANGED <<revenueMetrics, newsVars, fnVars, widgetVars>>

\* lines 67-70 and 435-443: the handler has its ad and calls trackAdRequest
HandlerResumes(r) ==
    /\ req[r].pc = "awaitSelect"
    /\ revenueMetrics' = [revenueMetrics EXCEPT !.hourlyRevenue = @ \cup {"hour"}]
    /\ req' = [req EXCEPT ![r] = [@ EXCEPT !.pc = "awaitTrack"]]
    /\ UNCHANGED <<newsVars, fnVars, widgetVars>>

\* lines 72-83
AdResponse(ad, metrics) ==
    [statusCode |-> 200,
     body |-> [success |-> ad.success,
               network |-> ad.network,
               html |-> ad.html,
               revenueScore |-> ad.revenueScore,
               loadTime |-> ad.loadTime,
               estimatedRevenue |-> ad.estimatedRevenue,
               revenueMetrics |-> getCurrentRevenueStats(metrics)]]

AdRespond(r) ==
    /\ req[r].pc = "awaitTrack"
    /\ req' = [req EXCEPT ![r] =
                 [@ EXCEPT !.pc = "done",
                           !.response = AdResponse(req[r].ad, revenueMetrics)]]
    /\ UNCHANGED <<revenueMetrics, newsVars, fnVars, widgetVars>>

InitAd == NewsQuiet /\ AdQuiet /\ FnQuiet /\ WidgetQuiet

NextAd ==
    \/ \E r \in Requests, type \in AdTypes : AdInvoke(r, type)
    \/ \E r \in Requests, outcome \in AdapterOutcomes :
          WithinFaults(outcome) /\ GenerateAdSettles(r, outcome)
    \/ \E r \in Requests : UpdateResumes(r)
    \/ \E r \in Requests : HandlerResumes(r)
    \/ \E r \in Requests : AdRespond(r)

SpecAd == InitAd /\ [][NextAd]_vars

----------------------------------------------------------------------------
(* The ad optimizer while the networks are degraded: any number of          *)
(* generateAd calls end without success, and few succeed.                   *)

RECURSIVE SuccessesUpTo(_)
SuccessesUpTo(r) ==
    IF r = 0 THEN 0
    ELSE (Len(req[r].attempts) - FaultsIn(req[r].attempts, 1)) + SuccessesUpTo(r - 1)

Successes == SuccessesUpTo(NumRequests)

WithinSuccesses(outcome) == outcome = "success" => Successes < MaxSuccesses

NextAdDegraded ==
    \/ \E r \in Requests, type \in AdTypes : AdInvoke(r, type)
    \/ \E r \in Requests, outcome \in AdapterOutcomes :
          WithinSuccesses(outcome) /\ GenerateAdSettles(r, outcome)
    \/ \E r \in Requests : UpdateResumes(r)
    \/ \E r \in Requests : HandlerResumes(r)
    \/ \E r \in Requests : AdRespond(r)

SpecAdDegraded == InitAd /\ [][NextAdDegraded]_vars


----------------------------------------------------------------------------
(* The ad optimizer handler with an exception raised inside its try         *)
(* (lines 65-83): the catch of lines 84-87 returns getFallbackAd(type,      *)
(* placement) as the handler's result.                                      *)

\* lines 67 and 84-87: `await getRevenueOptimizedAd(...)` rejects because the
\* awaited updatePerformanceMetrics of line 117 did
SelectionRaises(r) ==
    /\ req[r].pc = "awaitUpdate"
    /\ req[r].resume = "continue"
    /\ req' = [req EXCEPT ![r] = [@ EXCEPT !.pc = "done", !.response = getFallbackAd]]
    /\ UNCHANGED <<revenueMetrics, newsVars, fnVars, widgetVars>>

\* lines 70 and 84-87: `await trackAdRequest(...)` rejects
TrackRaises(r) ==
    /\ req[r].pc = "awaitSelect"
    /\ req' = [req EXCEPT ![r] = [@ EXCEPT !.pc = "done", !.response = getFallbackAd]]
    /\ UNCHANGED <<revenueMetrics, newsVars, fnVars, widgetVars>>

NextAdRaise ==
    \/ NextAd
    \/ \E r \in Requests : SelectionRaises(r)
    \/ \E r \in Requests : TrackRaises(r)

SpecAdRaise == InitAd /\ [][NextAdRaise]_vars

----------------------------------------------------------------------------
(* The ranking of lines 92-103 applied on its own to two enabled networks   *)
(* `a` and `b` that share one configuration, each with a performance record *)

\* total revenue a record can hold, in tenths: nothing, one or two banner
\* ads, and totals at and above the 1000 at which line 134 saturates
RevenueTotals == {0, 8, 16, 10000, 12000}

\* the records updatePerformanceMetrics can leave after 1..MaxRecorded requests
PerformanceRecords ==
    { p \in [successRate : {Ratio(su, rq) : su \in 0..MaxRecorded, rq \in 1..MaxRecorded},
             totalRevenue : RevenueTotals,
             requests : 1..MaxRecorded,
             successes : 0..MaxRecorded] :
         /\ p.successes <= p.requests
         /\ p.successRate = Ratio(p.successes, p.requests)
         /\ p.successes = 0 => p.totalRevenue = 0 }

InitRank ==
    /\ NewsQuiet
    /\ AdQuiet
    /\ WidgetQuiet
    /\ arg \in [config : {AD_NETWORKS[n] : n \in NetworkKeys},
                 a : PerformanceRecords, b : PerformanceRecords]
    /\ result = <<>>

\* lines 92-103 for Object.entries yielding a, then b: the stable sort by
\* scoreB - scoreA exchanges them only when b's score is the greater
RankPair ==
    /\ result = <<>>
    /\ result' = IF Greater(WeightedScore(arg.config, arg.b),
                            WeightedScore(arg.config, arg.a))
                 THEN << <<"b", "a">> >> ELSE << <<"a", "b">> >>
    /\ UNCHANGED <<arg, newsVars, adVars, widgetVars>>

NextRank == RankPair

SpecRank == InitRank /\ [][NextRank]_vars

----------------------------------------------------------------------------
(* The scoring map and the sort of lines 61-75 applied on their own to a    *)
(* page of unscored articles                                                *)

\* articles of low, medium and high impact, published two hours ago, thirty
\* hours ago, or carrying a publishedAt that `new Date` cannot parse
SortInputs ==
    { [url |-> "u", title |-> t, description |-> <<>>, published |-> p, src |-> "newsapi"] :
        t \in {<<"plain">>, <<"fed">>, <<"fed", "earnings">>},
        p \in {Num(Now - 2), Num(Now - 30), NaN} }

Pages(n) == UNION { [1..k -> SortInputs] : k \in 0..n }

InitSort ==
    /\ NewsQuiet
    /\ AdQuiet
    /\ WidgetQuiet
    /\ arg \in Pages(MaxListed)
    /\ result = <<>>

MapAndSort ==
    /\ result = <<>>
    /\ \E analyzedArticles \in SortOutcomes(ScoreAll(arg, Now)) :
          result' = <<analyzedArticles>>
    /\ UNCHANGED <<arg, newsVars, adVars, widgetVars>>

NextSort == MapAndSort

SpecSort == InitSort /\ [][NextSort]_vars

----------------------------------------------------------------------------
(* The scoring of lines 63-70 applied on its own to one unscored article,   *)
(* twice, each time at some moment                                          *)

\* the words of the texts given to the scorers: no keyword, keywords of
\* each list, one keyword inside another, one keyword of two lists, a ticker
Vocabulary ==
    {"plain", "fed", "federal reserve", "earnings", "market", "growth", "gain",
     "rise", "fall", "breaking", "amd"}

Texts(n) == UNION { [1..k -> Vocabulary] : k \in 0..n }

\* `description` absent, or a text
Descriptions == {<<>>, <<"earnings">>}

\* publishedAt: two hours ago, a day ago, five hours ahead, or absent / not
\* parseable by `new Date` (line 265)
PublishTimes == {Num(Now - 2), Num(Now - 24), Num(Now + 5), NaN}

\* the instants at which line 264 can read the clock
Moments == {Now, Now + 3}

UnscoredArticles ==
    [url : {"u"}, title : Texts(MaxWords) \cup {NoTitle},
     description : Descriptions, published : PublishTimes, src : {"newsapi"}]

\* lines 63-70 for one article at the moment `now`: the scored article, or
\* the TypeError of line 274
ScoreOne(a, now) ==
    IF UrgencyThrows(a) THEN [threw |-> TRUE, scored |-> a, at |-> now]
    ELSE [threw |-> FALSE, scored |-> Scored(a, now), at |-> now]

InitScorer ==
    /\ NewsQuiet
    /\ AdQuiet
    /\ WidgetQuiet
    /\ arg \in UnscoredArticles
    /\ result = <<>>

Score(now) ==
    /\ Len(result) < 2
    /\ result' = Append(result, ScoreOne(arg, now))
    /\ UNCHANGED <<arg, newsVars, adVars, widgetVars>>

NextScorer == \E now \in Moments : Score(now)

SpecScorer == InitScorer /\ [][NextScorer]_vars

----------------------------------------------------------------------------
(* Claims about the news endpoint *)

Responded == pc = "done"

Articles == response.body.articles

\* adapter i's upstream call failed or was skipped
AdapterFailed(i) == ~env[i] \/ upstream[i].kind \in FailureKinds

\* source i actually delivered: its credential is set and its upstream
\* answered; the fourth, when its promise was fulfilled
ActuallySucceeded(i) ==
    IF i \in Adapters THEN env[i] /\ upstream[i].kind = "ok"
    ELSE promise[i].status = "fulfilled"

\* adapter i succeeds with at least one item that carries a url
SucceedsWithUrl(i) ==
    /\ env[i]
    /\ upstream[i].kind = "ok"
    /\ \E k \in 1..Len(upstream[i].items) : upstream[i].items[k].url # ""

IsFallbackBody ==
    /\ response.statusCode = 200
    /\ Articles = fallbackArticles
    /\ "error" \in DOMAIN response.body

\* C1: when every source adapter fails (missing credential, network error,
\* non-2xx, timeout or malformed payload), the response is HTTP 200 with the
\* fallback articles and an error indicator, never a success body without one.
C1_AllFailedGivesFallback ==
    (Responded /\ \A i \in Adapters : AdapterFailed(i)) => IsFallbackBody

C1_Witness ==
    /\ Responded
    /\ ~env[1]
    /\ env[2] /\ upstream[2].kind = "timeout"
    /\ env[3] /\ upstream[3].kind = "malformed"
    /\ IsFallbackBody

\* C2: whenever at least one adapter succeeds with a non-empty list of items
\* that carry a url, the response is the live one: no error field, and every
\* article comes from an adapter's items.
C2_LiveWhenAnySucceeds ==
    (Responded /\ \E i \in Adapters : SucceedsWithUrl(i)) =>
        /\ "error" \notin DOMAIN response.body
        /\ \A k \in 1..Len(Articles) :
              \E i \in Adapters :
                 /\ ActuallySucceeded(i)
                 /\ \E j \in 1..Len(upstream[i].items) :
                       upstream[i].items[j].url = Articles[k].url

\* C3: no two articles of a response share a url, on the live path and on
\* the fallback path alike.
C3_UniqueUrls ==
    Responded =>
        \A j, k \in 1..Len(Articles) : j # k => Articles[j].url # Articles[k].url

\* C4: the handler answers only after every adapter call it started has
\* settled.
C4_JoinAll ==
    Responded => \A i \in Promises : promise[i].status # "pending"

\* C5: sourcesUsed reports false at the position of every adapter that failed
\* or was skipped, and true only for one that actually succeeded.
C5_SourcesUsedTruthful ==
    Responded =>
        \A i \in Promises :
           /\ (i \in Adapters /\ AdapterFailed(i)) => ~response.body.sourcesUsed[i]
           /\ response.body.sourcesUsed[i] => ActuallySucceeded(i)

----------------------------------------------------------------------------
(* Claims about the merge and the handler's tail *)

\* the promises i < j hold an item with the same url
SharedUrl(i, j) ==
    /\ promise[i].status = "fulfilled"
    /\ promise[j].status = "fulfilled"
    /\ \E a \in 1..Len(promise[i].value), b \in 1..Len(promise[j].value) :
          /\ promise[i].value[a].url # ""
          /\ promise[i].value[a].url = promise[j].value[b].url

\* the place of the first item with url u, over the fulfilled results taken
\* in configuration order: <<promise index, position>>
Holds(i, a, u) ==
    /\ promise[i].status = "fulfilled"
    /\ a \in 1..Len(promise[i].value)
    /\ promise[i].value[a].url = u

IsFirst(i, a, u) ==
    /\ Holds(i, a, u)
    /\ \A j \in Promises, b \in 1..MaxTotal :
          Holds(j, b, u) => (j > i \/ (j = i /\ b >= a))

PlaceBefore(i, a, j, b) == i < j \/ (i = j /\ a < b)

ReturnedUrls ==
    { u \in {it.url : it \in UpstreamItems} \ {""} : \E i \in Promises, a \in 1..MaxTotal : Holds(i, a, u) }

\* C6: the merged sequence is a function of the results in configuration
\* order alone: it holds, for each returned url, exactly the item of the
\* earliest-configured source that returned it, in first-seen order,
\* whatever the order in which the promises settled.
C6_MergeKeepsFirstInConfigOrder ==
    Responded =>
        /\ \A j, k \in 1..Len(allArticles) :
              j # k => allArticles[j].url # allArticles[k].url
        /\ {allArticles[k].url : k \in 1..Len(allArticles)} = ReturnedUrls
        /\ \A k \in 1..Len(allArticles) :
              \E i \in Promises, a \in 1..MaxTotal :
                 /\ IsFirst(i, a, allArticles[k].url)
                 /\ allArticles[k] = promise[i].value[a]
        /\ \A j, k \in 1..Len(allArticles) :
              j < k =>
                \E i1, i2 \in Promises, a1, a2 \in 1..MaxTotal :
                   /\ IsFirst(i1, a1, allArticles[j].url)
                   /\ IsFirst(i2, a2, allArticles[k].url)
                   /\ PlaceBefore(i1, a1, i2, a2)

\* a later-configured source settled before an earlier one that returned the
\* same url
C6_Witness ==
    /\ Responded
    /\ \E i, j \in Promises, m, n \in 1..Len(settleOrder) :
          /\ i < j
          /\ SharedUrl(i, j)
          /\ settleOrder[m] = j
          /\ settleOrder[n] = i
          /\ m < n
    /\ Len(allArticles) >= 1

RequiredFields ==
    {"articles", "totalResults", "sourcesUsed", "analyzedAt", "marketSummary"}

\* C7: whatever the adapters deliver, an item without a title included, the
\* handler answers with status 200 and a body that has articles,
\* totalResults, sourcesUsed, analyzedAt and marketSummary; no error reaches
\* the caller.
C7_AlwaysStructured200 ==
    Responded =>
        /\ response.statusCode = 200
        /\ RequiredFields \subseteq DOMAIN response.body

\* the scoring stage raised on an item without a title
C7_Witness ==
    /\ Responded
    /\ ScoringThrows(Slice(allArticles, pageSize))
    /\ response.statusCode = 200
    /\ RequiredFields \subseteq DOMAIN response.body


----------------------------------------------------------------------------
(* Claims about the ad optimizer *)

Started(r) == req[r].pc # "idle"

AttemptedNetworks(q) == [k \in 1..Len(q.attempts) |-> q.attempts[k].network]

\* C8: the enabled networks are attempted in descending order of the score
\* computed when the request started; the ad returned comes from the first
\* network in that order whose adapter succeeded, and every network ranked
\* above it was attempted and did not succeed.
C8_AttemptsInScoreOrder ==
    \A r \in Requests :
       Started(r) =>
          LET q == req[r] IN
          /\ {q.order[k] : k \in 1..Len(q.order)}
                = {n \in NetworkKeys : AD_NETWORKS[n].enabled}
          /\ \A j, k \in 1..Len(q.order) :
                j < k => ~Greater(q.scores[q.order[k]], q.scores[q.order[j]])
          /\ Len(q.attempts) <= Len(q.order)
          /\ AttemptedNetworks(q) = SubSeq(q.order, 1, Len(q.attempts))
          /\ \A k \in 1..Len(q.attempts) :
                q.attempts[k].outcome = "success" => k = Len(q.attempts)
          /\ q.ad.network \notin {"none", "fallback"} =>
                /\ q.attempts # <<>>
                /\ q.attempts[Len(q.attempts)].outcome = "success"
                /\ q.attempts[Len(q.attempts)].network = q.ad.network
          /\ q.pc = "done" => q.response.body.network = q.ad.network

\* a request answered with the ad of the network ranked second, after the
\* first-ranked network did not succeed, while recorded performance had
\* already changed the ranking from the configured one
C8_Witness ==
    \E r \in Requests :
       /\ req[r].pc = "done"
       /\ Len(req[r].attempts) = 2
       /\ req[r].response.body.network = req[r].order[2]
       /\ req[r].order[1] # "adsense"

RequestsOf(metrics, key) ==
    IF HasRecord(metrics, key) THEN PerfOf(metrics, key).requests ELSE 0

ConsistentRecord(p) ==
    /\ p.requests >= 1
    /\ 0 <= p.successes
    /\ p.successes <= p.requests
    /\ p.successRate.den # 0
    /\ p.successRate.num * p.requests = p.successes * p.successRate.den

ConsistentRecords(perf) == \A k \in 1..Len(perf) : ConsistentRecord(perf[k])

\* C10: at every moment, and in every response, each existing performance
\* record has requests >= 1, 0 <= successes <= requests and
\* successRate = successes / requests.
C10_CountersConsistent ==
    /\ ConsistentRecords(revenueMetrics.networkPerformance)
    /\ \A r \in Requests :
          req[r].pc = "done" =>
             ConsistentRecords(req[r].response.body.revenueMetrics.networkPerformance)

\* two requests in flight at once on a record with both outcomes counted
C10_Witness ==
    /\ \A r \in Requests : req[r].pc \notin {"idle", "done"}
    /\ \E k \in 1..Len(revenueMetrics.networkPerformance) :
          LET p == revenueMetrics.networkPerformance[k]
          IN  p.requests >= 2 /\ p.successes >= 1 /\ p.successes < p.requests

\* every enabled network was attempted and none succeeded
Exhausted(q) ==
    /\ q.order # <<>>
    /\ Len(q.attempts) = Len(q.order)
    /\ \A k \in 1..Len(q.attempts) : q.attempts[k].outcome # "success"

\* getRevenueOptimizedAd has returned
Selected(q) == q.pc \in {"awaitSelect", "awaitTrack", "done"}

\* C11: when every enabled network's attempt fails the request's result is
\* the fallback ad (network `fallback`); no step ever leaves a performance
\* record keyed `fallback`, and the step that selects the fallback changes
\* neither totalRevenue nor any performance record.
C11_FallbackNotRecorded ==
    [][/\ ~HasRecord(revenueMetrics', "fallback")
       /\ \A r \in Requests :
             LET q == req'[r] IN
             /\ (Selected(q) /\ Exhausted(q)) => q.ad.network = "fallback"
             /\ (q.pc = "done" /\ Exhausted(q)) =>
                   /\ q.response.body.network = "fallback"
                   /\ ~HasRecord(q.response.body.revenueMetrics, "fallback")
             /\ (q.ad.network = "fallback" /\ req[r].ad.network # "fallback") =>
                   /\ revenueMetrics'.totalRevenue = revenueMetrics.totalRevenue
                   /\ revenueMetrics'.networkPerformance
                         = revenueMetrics.networkPerformance]_vars

\* a request answered with the fallback after all four networks failed,
\* while another request's success had already been recorded as revenue
C11_Witness ==
    \E r \in Requests :
       /\ req[r].pc = "done"
       /\ Exhausted(req[r])
       /\ req[r].response.body.network = "fallback"
       /\ revenueMetrics.totalRevenue > 0
       /\ \E k \in 1..4 : req[r].attempts[k].outcome = "throws"
       /\ \E k \in 1..4 : req[r].attempts[k].outcome = "nonSuccess"

AdBodyFields ==
    {"success", "network", "html", "revenueScore", "loadTime", "estimatedRevenue",
     "revenueMetrics"}

HigherRecorded(x, y) ==
    /\ arg[x].totalRevenue > arg[y].totalRevenue
    /\ Greater(arg[x].successRate, arg[y].successRate)

Geq(x, y) == ~x.nan /\ ~y.nan /\ x.v >= y.v

----------------------------------------------------------------------------
(* Claims about the scorers *)

\* the articles a scoring produced
ScoredNow == {result[k].scored : k \in {j \in 1..Len(result) : ~result[j].threw}}

FullyScored(a) ==
    /\ a.marketImpact \in {"high", "medium", "low"}
    /\ a.sentiment \in {"positive", "negative", "neutral"}
    /\ Len(a.relatedAssets) <= 5
    /\ ~a.urgency.nan
    /\ a.tradingImplications # <<>>

ScoredByContract(a) ==
    /\ a.marketImpact = analyzeMarketImpact(a)
    /\ a.sentiment = analyzeAdvancedSentiment(a)
    /\ a.relatedAssets = extractRelatedAssets(a)
    /\ a.urgency = calculateUrgencyScore(a, Now)
    /\ a.tradingImplications = generateTradingImplications(a)

\* C16: each fallback article's marketImpact, sentiment, relatedAssets,
\* urgency and tradingImplications equal what the scorer functions compute
\* for that article's own title, description and publish time.
C16_FallbackScoredByContract ==
    (Responded /\ IsFallbackBody) =>
       \A k \in 1..Len(Articles) : ScoredByContract(Articles[k])

\* the keywords of a list that the lower-cased title and description of a hold
Matched(keywords, a) ==
    {w \in keywords :
        \E k \in 1..Len(Content(a)) : Contains(Lower(Content(a)[k]), w)}

\* C17: marketImpact is high when the lower-cased title and description
\* match at least 2 high-impact keywords, medium when they match at least 1
\* high-impact keyword or at least 2 medium-impact keywords, low otherwise;
\* "fed" with "earnings" is high, "earnings" as the only keyword is medium,
\* no keyword of either list is low.
C17_ImpactClassification ==
    \A a \in ScoredNow :
       LET high == Matched(HighImpactKeywords, a)
           medium == Matched(MediumImpactKeywords, a)
       IN  /\ a.marketImpact =
                 (IF Cardinality(high) >= 2 THEN "high"
                  ELSE IF Cardinality(high) >= 1 \/ Cardinality(medium) >= 2
                       THEN "medium"
                  ELSE "low")
           /\ {"fed", "earnings"} \subseteq high => a.marketImpact = "high"
           /\ (high = {"earnings"} /\ medium = {}) => a.marketImpact = "medium"
           /\ (high = {} /\ medium = {}) => a.marketImpact = "low"

\* an article with "fed" in its title and "earnings" in its description,
\* scored as high
C17_Witness ==
    /\ Len(result) = 2
    /\ \A a \in ScoredNow :
          /\ Matched(HighImpactKeywords, a) = {"fed", "earnings"}
          /\ a.marketImpact = "high"
          /\ a.title = <<"plain", "fed">>
          /\ a.description = <<"earnings">>
    /\ ScoredNow # {}

\* the number of places of a's title and description at which a word of the
\* list stands
Occurrences(keywords, a) ==
    Cardinality({k \in 1..Len(Content(a)) :
                   \E w \in keywords : Contains(Lower(Content(a)[k]), w)})

SentimentOf(score) ==
    IF score >= 2 THEN "positive" ELSE IF score <= -2 THEN "negative" ELSE "neutral"

\* C18: sentiment is positive when the positive words matched minus the
\* negative words matched is >= 2, negative when it is <= -2, neutral
\* otherwise, each word of a list counting once however often it occurs;
\* content matching 3 different positive words and no negative word is
\* positive, content matching 1 positive and 1 negative word is neutral.
C18_SentimentByMatchedWords ==
    \A a \in ScoredNow :
       LET positive == Cardinality(Matched(PositiveWords, a))
           negative == Cardinality(Matched(NegativeWords, a))
       IN  /\ a.sentiment = SentimentOf(positive - negative)
           /\ (positive = 3 /\ negative = 0) => a.sentiment = "positive"
           /\ (positive = 1 /\ negative = 1) => a.sentiment = "neutral"

\* C18 as stated: content with 3 occurrences of positive words and none of a
\* negative word is positive, content with 1 occurrence of each is neutral,
\* and in general the sentiment follows positive minus negative matches.
C18_SentimentByOccurrences ==
    \A a \in ScoredNow :
       LET positive == Occurrences(PositiveWords, a)
           negative == Occurrences(NegativeWords, a)
       IN  /\ (positive = 3 /\ negative = 0) => a.sentiment = "positive"
           /\ (positive = 1 /\ negative = 1) => a.sentiment = "neutral"
           /\ a.sentiment = SentimentOf(Cardinality(Matched(PositiveWords, a))
                                          - Cardinality(Matched(NegativeWords, a)))

\* a text with three different positive words scored positive, and seen
\* again: the second scoring of the same article
C18_Witness ==
    /\ Len(result) = 2
    /\ ScoredNow # {}
    /\ \A a \in ScoredNow :
          /\ Matched(PositiveWords, a) = {"gain", "rise", "growth"}
          /\ Matched(NegativeWords, a) = {}
          /\ a.sentiment = "positive"

\* the title of a holds a breaking-news keyword
HasBreaking(a) ==
    \E k \in 1..Len(a.title) : \E w \in BreakingKeywords : Contains(Lower(a.title[k]), w)

\* min(1, max(0, 24 - hours)/24 + (0.3 if breaking)), in units of 1/240
UrgencyFormula(hours, breaking) ==
    Min(240, Max(0, 24 - hours) * 10 + (IF breaking THEN 72 ELSE 0))

\* C19: for every article scored, whatever its publish-time field holds,
\* urgency is a number in [0,1] equal to min(1, max(0, 24 -
\* hoursSincePublished)/24 + 0.3 for a breaking-news keyword in the title),
\* and is 0 for an item 24 or more hours old without such a keyword.
C19_UrgencyInUnitInterval ==
    \A k \in 1..Len(result) :
       ~result[k].threw =>
          LET a == result[k].scored
              hours == result[k].at - a.published.v
          IN  /\ ~a.urgency.nan
              /\ 0 <= a.urgency.v /\ a.urgency.v <= 240
              /\ ~a.published.nan =>
                    /\ a.urgency.v = UrgencyFormula(hours, HasBreaking(a))
                    /\ (hours >= 24 /\ ~HasBreaking(a)) => a.urgency.v = 0

\* the article was scored twice
ScoredTwice == Len(result) = 2 /\ ~result[1].threw /\ ~result[2].threw

SameContentScores(x, y) ==
    /\ x.marketImpact = y.marketImpact
    /\ x.sentiment = y.sentiment
    /\ x.relatedAssets = y.relatedAssets
    /\ x.tradingImplications = y.tradingImplications

----------------------------------------------------------------------------
(* The performance update of lines 405-433 applied on its own, any number   *)
(* of times, with the amounts as the IEEE-754 doubles JavaScript adds.      *)
(* Every amount met here is a double below 16 that is a multiple of 2^-53;  *)
(* it is kept as the two limbs of amount * 2^53 = hi * 2^27 + lo.           *)

\* number of performance updates applied
MaxUpdates == 4

\* the exact sum of two amounts; a limb holds 27 bits
ExactPlus(x, y) ==
    [hi |-> x.hi + y.hi + ((x.lo + y.lo) \div (2 ^ 27)),
     lo |-> (x.lo + y.lo) % (2 ^ 27)]

\* the double a decimal literal of the source denotes, the literal given in
\* tenths: 0, 0.5, 0.6, 0.7, 0.8, 0.9 and 1.2 (lines 170-401, 409)
Literal(tenths) ==
    CASE tenths = 0 -> [hi |-> 0, lo |-> 0]
      [] tenths = 5 -> [hi |-> 33554432, lo |-> 0]
      [] tenths = 6 -> [hi |-> 40265318, lo |-> 53687091]
      [] tenths = 7 -> [hi |-> 46976204, lo |-> 107374182]
      [] tenths = 8 -> [hi |-> 53687091, lo |-> 26843546]
      [] tenths = 9 -> [hi |-> 60397977, lo |-> 80530637]
      [] tenths = 12 -> [hi |-> 80530636, lo |-> 107374182]

\* lines 420-421: `+=` on two numbers, which is the double nearest to the
\* exact sum, a tie going to the double with the even significand.  g is the
\* distance between neighbouring doubles around the sum, in units of 2^-53:
\* 1 below 1, 2 in [1, 2), 4 in [2, 4), 8 in [4, 8), 16 in [8, 16)
DoublePlus(x, y) ==
    LET sum == ExactPlus(x, y)
        g == IF sum.hi < 2 ^ 26 THEN 1
             ELSE IF sum.hi < 2 ^ 27 THEN 2
             ELSE IF sum.hi < 2 ^ 28 THEN 4
             ELSE IF sum.hi < 2 ^ 29 THEN 8
             ELSE 16
        r == sum.lo % g
        down == sum.lo - r
        up == down + g
        lo == IF 2 * r < g THEN down
              ELSE IF 2 * r > g THEN up
              ELSE IF (down \div g) % 2 = 0 THEN down ELSE up
    IN  [hi |-> sum.hi + (lo \div (2 ^ 27)), lo |-> lo % (2 ^ 27)]

\* line 430: `>` on two numbers
DoubleGreater(x, y) == x.hi > y.hi \/ (x.hi = y.hi /\ x.lo > y.lo)

\* lines 427-432: reduce over the keys, keeping a only when strictly greater
RECURSIVE ReduceBestIEEE(_, _, _)
ReduceBestIEEE(perf, a, k) ==
    IF k > Len(perf) THEN a
    ELSE ReduceBestIEEE(perf,
            IF DoubleGreater(
                  perf[(CHOOSE j \in 1..Len(perf) : perf[j].key = a)].totalRevenue,
                  perf[k].totalRevenue)
            THEN a ELSE perf[k].key,
            k + 1)

\* lines 405-433 on doubles
updatePerformanceMetricsIEEE(metrics, networkKey, success, revenue) ==
    LET created ==
            IF HasRecord(metrics, networkKey) THEN metrics.networkPerformance
            ELSE Append(metrics.networkPerformance,
                        [key |-> networkKey, successRate |-> Ratio(4, 5),
                         totalRevenue |-> Literal(0), requests |-> 0,
                         successes |-> 0])
        at == CHOOSE k \in 1..Len(created) : created[k].key = networkKey
        old == created[at]
        requests == old.requests + 1
        successes == IF success THEN old.successes + 1 ELSE old.successes
        perf == [key |-> networkKey,
                 successRate |-> Ratio(successes, requests),
                 totalRevenue |-> IF success
                                  THEN DoublePlus(old.totalRevenue, revenue)
                                  ELSE old.totalRevenue,
                 requests |-> requests,
                 successes |-> successes]
        updated == [created EXCEPT ![at] = perf]
    IN  [metrics EXCEPT
            !.networkPerformance = updated,
            !.totalRevenue = IF success THEN DoublePlus(@, revenue) ELSE @,
            !.bestPerforming = ReduceBestIEEE(updated, updated[1].key, 2)]

\* number of updates applied so far
RECURSIVE UpdatesFrom(_, _)
UpdatesFrom(perf, k) ==
    IF k > Len(perf) THEN 0
    ELSE perf[k].requests + UpdatesFrom(perf, k + 1)

InitRevenue ==
    /\ NewsQuiet
    /\ FnQuiet
    /\ WidgetQuiet
    /\ req = [r \in Requests |-> IdleRequest]
    /\ revenueMetrics = [InitialMetrics EXCEPT !.totalRevenue = Literal(0)]

\* line 112: the update after generateAd gave an ad of the network
RecordSuccess(networkKey, type) ==
    /\ UpdatesFrom(revenueMetrics.networkPerformance, 1) < MaxUpdates
    /\ revenueMetrics' =
          updatePerformanceMetricsIEEE(revenueMetrics, networkKey, TRUE,
                                       Literal(EstimatedRevenue(networkKey, type)))
    /\ UNCHANGED <<req, newsVars, fnVars, widgetVars>>

\* line 117: the update after generateAd threw
RecordFailure(networkKey) ==
    /\ UpdatesFrom(revenueMetrics.networkPerformance, 1) < MaxUpdates
    /\ revenueMetrics' =
          updatePerformanceMetricsIEEE(revenueMetrics, networkKey, FALSE,
                                       Literal(0))
    /\ UNCHANGED <<req, newsVars, fnVars, widgetVars>>

NextRevenue ==
    \/ \E networkKey \in NetworkKeys, type \in AdTypes :
          RecordSuccess(networkKey, type)
    \/ \E networkKey \in NetworkKeys : RecordFailure(networkKey)

SpecRevenue == InitRevenue /\ [][NextRevenue]_vars

\* the per-network totals added up exactly
RECURSIVE ExactTotal(_, _)
ExactTotal(perf, k) ==
    IF k > Len(perf) THEN Literal(0)
    ELSE ExactPlus(perf[k].totalRevenue, ExactTotal(perf, k + 1))

\* the per-network totals added up as doubles, in the order of the records
RECURSIVE DoubleTotal(_, _, _)
DoubleTotal(perf, acc, k) ==
    IF k > Len(perf) THEN acc
    ELSE DoubleTotal(perf, DoublePlus(acc, perf[k].totalRevenue), k + 1)

\* bestPerforming names a record whose totalRevenue no record exceeds
BestIsMaximal ==
    LET perf == revenueMetrics.networkPerformance IN
    perf # <<>> =>
       \E j \in 1..Len(perf) :
          /\ perf[j].key = revenueMetrics.bestPerforming
          /\ \A k \in 1..Len(perf) :
                ~DoubleGreater(perf[k].totalRevenue, perf[j].totalRevenue)

----------------------------------------------------------------------------
(* The page's ad widget (part_001): AdvancedAdManager, constructed on       *)
(* DOMContentLoaded (lines 174-175).  Each loadAd call is a process that    *)
(* waits for fetch (line 38), then for response.json() (line 39).  When a   *)
(* call ends, the loop that awaited it goes on in the same turn.            *)

\* number of loadAd calls made
MaxLoads == 4

\* lines 136-145: the markup loadFallbackAd writes
LocalFallbackMarkup == "widget-fallback"

\* line 39: what response.json() can resolve with, being the body of the ad
\* optimizer's response: an adapter's ad, the optimizer's own fallback ad,
\* or a body with no truthy `success`, as an error page of the host has
AdBodies(type) ==
    {AdapterAd("adsense", type), AdapterAd("propellerads", type),
     getFallbackAd,
     [success |-> FALSE, network |-> "none", html |-> "", revenueScore |-> 0,
      loadTime |-> 0, estimatedRevenue |-> 0]}

\* loadAd calls the loops still have to make: initializeContainers for the
\* containers it has not reached, each running rotateAds for the rest of
\* the map
RECURSIVE LoadsOwedFrom(_)
LoadsOwedFrom(l) ==
    IF l > Len(loads) THEN 0
    ELSE (IF loads[l].pc # "done" /\ loads[l].caller \in {"init", "rotate"}
          THEN Len(Page) - loads[l].at ELSE 0)
         + LoadsOwedFrom(l + 1)

CanLoad(n) == Len(loads) + LoadsOwedFrom(1) + n <= MaxLoads

\* lines 100-112
trackAdRender(container, adData) ==
    LET pushed == Append(container.performance, adData.network)
    IN  [container EXCEPT !.performance =
            IF Len(pushed) > 100 THEN Tail(pushed) ELSE pushed]

\* lines 58-85: the script initializeAdScripts adds to document.head
initializeAdScripts(scripts, network) ==
    CASE network = "propellerads" -> scripts \cup {"propellerads.com/script.js"}
      [] network = "adsterra" -> scripts \cup {"adsterra.com/script.js"}
      [] OTHER -> scripts

\* lines 134-146
loadFallbackAd(container) ==
    [container EXCEPT !.element = LocalFallbackMarkup]

\* the loop that awaited loadAd call l goes on: initializeContainers
\* (lines 19-33) registers the next container and loads it, and after the
\* last one init starts the rotation (lines 11-12); rotateAds (lines 95-97)
\* loads the next container of the map
LoopResumes(l, containers, scripts) ==
    LET call == loads[l]
        ended == [loads EXCEPT ![l].pc = "done"]
        more == call.caller \in {"init", "rotate"} /\ call.at < Len(Page)
        next == Page[call.at + 1]
    IN  /\ loads' = IF more
                    THEN Append(ended, [container |-> next, pc |-> "awaitFetch",
                                        caller |-> call.caller, at |-> call.at + 1])
                    ELSE ended
        /\ adContainers' =
              IF more /\ call.caller = "init"
              THEN [containers EXCEPT ![next] = Container(TRUE)]
              ELSE containers
        /\ manager' =
              [manager EXCEPT
                 !.scripts = scripts,
                 !.init = IF call.caller = "init" /\ ~more THEN "done" ELSE @,
                 !.rotating = IF call.caller = "init" /\ ~more THEN TRUE ELSE @]

\* lines 2-7, 9-10, 15-32: the constructor calls init, which registers the
\* first container and calls loadAd for it
Construct ==
    /\ manager.init = "notConstructed"
    /\ manager' = [manager EXCEPT !.init = "initializing"]
    /\ adContainers' = [adContainers EXCEPT ![Page[1]] = Container(TRUE)]
    /\ loads' = <<[container |-> Page[1], pc |-> "awaitFetch",
                   caller |-> "init", at |-> 1]>>
    /\ UNCHANGED <<newsVars, adVars, fnVars>>

\* line 38: fetch resolves with a response
FetchResolves(l) ==
    /\ loads[l].pc = "awaitFetch"
    /\ loads' = [loads EXCEPT ![l].pc = "awaitJson"]
    /\ UNCHANGED <<manager, adContainers, newsVars, adVars, fnVars>>

\* line 38 rejects (no network), then lines 52-55
FetchRejects(l) ==
    /\ loads[l].pc = "awaitFetch"
    /\ LoopResumes(l, [adContainers EXCEPT ![loads[l].container] = loadFallbackAd(@)],
              manager.scripts)
    /\ UNCHANGED <<newsVars, adVars, fnVars>>

\* line 39 resolves with adData, then lines 41-51
JsonResolves(l, adData) ==
    /\ loads[l].pc = "awaitJson"
    /\ IF adData.success
       THEN LoopResumes(l,
               [adContainers EXCEPT ![loads[l].container] =
                   trackAdRender([@ EXCEPT !.element = adData.html,
                                           !.currentNetwork = adData.network],
                                 adData)],
               initializeAdScripts(manager.scripts, adData.network))
       ELSE LoopResumes(l, adContainers, manager.scripts)
    /\ UNCHANGED <<newsVars, adVars, fnVars>>

\* line 39 rejects (the body is not JSON), then lines 52-55
JsonRejects(l) ==
    /\ loads[l].pc = "awaitJson"
    /\ LoopResumes(l, [adContainers EXCEPT ![loads[l].container] = loadFallbackAd(@)],
              manager.scripts)
    /\ UNCHANGED <<newsVars, adVars, fnVars>>

\* lines 89-96: the interval fires and rotateAds calls loadAd for the first
\* container of the map
RotationTick ==
    /\ manager.rotating
    /\ CanLoad(Len(Page))
    /\ loads' = Append(loads, [container |-> Page[1], pc |-> "awaitFetch",
                               caller |-> "rotate", at |-> 1])
    /\ manager' = [manager EXCEPT !.rotations = @ + 1]
    /\ UNCHANGED <<adContainers, newsVars, adVars, fnVars>>

\* lines 149-154: the page calls refreshAd for a container of the map
refreshAd(containerId) ==
    /\ manager.init # "notConstructed"
    /\ adContainers[containerId].registered
    /\ CanLoad(1)
    /\ loads' = Append(loads, [container |-> containerId, pc |-> "awaitFetch",
                               caller |-> "refresh", at |-> 0])
    /\ UNCHANGED <<manager, adContainers, newsVars, adVars, fnVars>>

InitWidget == NewsQuiet /\ AdQuiet /\ FnQuiet /\ WidgetQuiet

NextWidget ==
    \/ Construct
    \/ \E l \in 1..Len(loads) : FetchResolves(l)
    \/ \E l \in 1..Len(loads) : FetchRejects(l)
    \/ \E l \in 1..Len(loads), adData \in AdBodies("banner") : JsonResolves(l, adData)
    \/ \E l \in 1..Len(loads) : JsonRejects(l)
    \/ RotationTick
    \/ \E containerId \in ContainerIds : refreshAd(containerId)

SpecWidget == InitWidget /\ [][NextWidget]_vars

\* C22: whenever a container's element shows the widget's local fallback
\* markup, the container's currentNetwork does not name an ad network
\* (which only an earlier successful load can have stored).
C22_NetworkNamesDisplayedSource ==
    \A c \in ContainerIds :
        adContainers[c].element = LocalFallbackMarkup =>
            adContainers[c].currentNetwork \notin NetworkKeys

====
